---- MODULE Spec2Model ----
(***************************************************************************)
(* Token ledger of raulk/lotus: the node API (node/impl/full/token.go)     *)
(* builds a message with the version-3 message builder                    *)
(* (chain/actors/builtin/token/message3.go), pushes it to the message      *)
(* pool, and the execution engine applies the pooled messages one at a     *)
(* time to the token actor's state {TokenInfo, Balances, Approvals}.       *)
(* The actor's methods are not part of the lotus sources; they are         *)
(* modelled from section 4.3 of the specification.                         *)
(*                                                                         *)
(* Spec       the API mutation calls, the message pool and the engine      *)
(* SpecBuild  the message builder called directly, its message pushed later*)
(* SpecSnap   a reader holding a state handle while the ledger mutates     *)
(* SpecQuery  the read API and the traversals of the state handle          *)
(* SpecCli    one command of the command-line client, up to its receipt    *)
(***************************************************************************)
EXTENDS Integers, Sequences, FiniteSets, TLC

\* ------------------------------------------------------------------ state
VARIABLES
    nver,       \* the network version StateNetworkVersion reports
    crashed,    \* the node process died in a panic
    info,       \* TokenInfo of the ledger: <<>> before construction, else <<info>>
    balances,   \* Balances: holder -> amount
    approvals,  \* Approvals: holder -> (spender -> allowance)
    mpool,      \* message pool: the messages pushed and not yet applied
    last,       \* <<>> while a message is pending, else the record of the message
                \* applied last: its call, its receipt's exit code, the ledger before it
    steps,      \* number of messages applied
    created,    \* history: <<>>, or <<call>> of the Create that constructed the ledger
    granted,    \* history: holder -> spender -> <<>> or <<A, moved>>: the amount of the
                \* holder's latest Approve and the total moved by the spender since
    built,      \* the results of the builder calls made directly (offline), in order
    handle,     \* <<>>, or <<state3>>: the state handle a reader loaded and holds
    first,      \* history: <<>>, or the first read made on the handle held
    ret,        \* <<>>, or the result of the query answered last
    term        \* the command-line client: its stage, its command and what it printed

vars == <<nver, crashed, info, balances, approvals, mpool, last, steps, created, granted,
          built, handle, first, ret, term>>

\* the state of the readers and of the offline builder
aux == <<built, handle, first, ret>>

\* ---------------------------------------------------------------- bounds
\* largest amount a caller passes
MaxAmount == 2
\* largest total supply given to Create
MaxSupply == 2
\* number of messages the engine applies in one behaviour
MaxSteps == 3

\* -------------------------------------------------------------- addresses
\* ID addresses of the account actors that exist on chain
IDAddrs == {"t01", "t02"}
\* a public-key address no account actor is registered for
UnknownAddr == "t1x"
Addrs == IDAddrs \cup {UnknownAddr}
\* the public-key addresses of the accounts t01 and t02
KeyAddr == "t1a"
OtherKeyAddr == "t1b"
\* address.Undef, the empty address
UndefAddr == "<empty>"
\* holder addresses a caller may hand to the read API
HolderArgs == Addrs \cup {KeyAddr}
NoAddr == "none"
\* init_.Address, the init actor, and the address of the one token ledger
InitAddr == "t00"
TokenAddr == "t0100"
\* an address at which no token ledger exists
OtherTokenAddr == "t0101"
\* ledger addresses a caller may hand to the builder
TokenAddrs == {TokenAddr, OtherTokenAddr}

\* abi.TokenAmount is a signed big integer: callers may pass a negative amount
Amounts == (0 - 1)..MaxAmount
Supplies == {1, MaxSupply}

\* network versions: actors.VersionForNetwork maps them to an actors version
NetworkVersions == {"nv9", "nv10"}
VersionForNetwork(nv) == IF nv = "nv10" THEN "Version3" ELSE "Version2"
\* actors versions a caller may ask a builder for
Versions == {"Version2", "Version3"}

\* method numbers, by name
MethodExec == "MethodsInit.Exec"
MethodTransfer == "MethodsToken.Transfer"
MethodTransferFrom == "MethodsToken.TransferFrom"
MethodApprove == "MethodsToken.Approve"
TokenActorCodeID == "fil/3/token"
AccountActorCodeID == "fil/3/account"

\* TokenInfo values a caller hands to TokenCreate
\* (the CLI fills every field but the issuer, which stays undefined)
Infos ==
    [Name : {"Foo"}, Symbol : {"FOO"}, Icon : {"svg"}, Decimals : {"18"},
     TotalSupply : Supplies, Issuer : {NoAddr}]
\* TokenInfo values a caller of the builder may hand to Create: any issuer
InfosGiven ==
    [Name : {"Foo"}, Symbol : {"FOO"}, Icon : {"svg"}, Decimals : {"18"},
     TotalSupply : Supplies, Issuer : IDAddrs \cup {NoAddr}]

\* ------------------------------------------------- message builder (v3)
\* actors.SerializeParams: the CBOR tuple of the struct's fields, in order
SerializeParams(fields) == <<"cbor">> \o fields

\* Create that names the receiver instead of the sender as system account
message3_Create_NoIssuer(from, inf) ==
    [To |-> InitAddr, From |-> from, Method |-> MethodExec,
     Params |-> SerializeParams(<<TokenActorCodeID,
                   SerializeParams(<<inf.Name, inf.Symbol, inf.Icon,
                                     inf.Decimals, inf.TotalSupply, InitAddr>>)>>),
     Value |-> 0]

\* Create that leaves the total supply out of the constructor params
message3_Create_NoSupply(from, inf) ==
    [To |-> InitAddr, From |-> from, Method |-> MethodExec,
     Params |-> SerializeParams(<<TokenActorCodeID,
                   SerializeParams(<<inf.Name, inf.Symbol, inf.Icon,
                                     inf.Decimals, 0, from>>)>>),
     Value |-> 0]

\* Create that leaves the icon out of the constructor params
message3_Create_NoIcon(from, inf) ==
    [To |-> InitAddr, From |-> from, Method |-> MethodExec,
     Params |-> SerializeParams(<<TokenActorCodeID,
                   SerializeParams(<<inf.Name, inf.Symbol, "",
                                     inf.Decimals, inf.TotalSupply, from>>)>>),
     Value |-> 0]

message3_Create(from, inf) ==
    [To |-> InitAddr, From |-> from, Method |-> MethodExec,
     Params |-> SerializeParams(<<TokenActorCodeID,
                   SerializeParams(<<inf.Name, inf.Symbol, inf.Icon,
                                     inf.Decimals, inf.TotalSupply, from>>)>>),
     Value |-> 0]

\* Transfer that puts the amount in the message value instead of the params
message3_Transfer_AsValue(from, tokenAddr, to, amount) ==
    [To |-> tokenAddr, From |-> from, Method |-> MethodTransfer,
     Params |-> SerializeParams(<<to, 0>>), Value |-> amount]

\* Transfer that looks the sender's balance up and builds for no more than it
message3_Transfer_Capped(from, tokenAddr, to, amount) ==
    [To |-> tokenAddr, From |-> from, Method |-> MethodTransfer,
     Params |-> SerializeParams(<<to,
                   IF from \in DOMAIN balances /\ balances[from] < amount
                   THEN balances[from] ELSE amount>>),
     Value |-> 0]

message3_Transfer(from, tokenAddr, to, amount) ==
    [To |-> tokenAddr, From |-> from, Method |-> MethodTransfer,
     Params |-> SerializeParams(<<to, amount>>), Value |-> 0]

\* TransferFrom that swaps holder and recipient in the params
message3_TransferFrom_Swapped(from, tokenAddr, holder, to, amount) ==
    [To |-> tokenAddr, From |-> from, Method |-> MethodTransferFrom,
     Params |-> SerializeParams(<<to, holder, amount>>), Value |-> 0]

message3_TransferFrom(from, tokenAddr, holder, to, amount) ==
    [To |-> tokenAddr, From |-> from, Method |-> MethodTransferFrom,
     Params |-> SerializeParams(<<holder, to, amount>>), Value |-> 0]

\* Approve that names the sender as the approvee
message3_Approve_Self(from, tokenAddr, spender, amount) ==
    [To |-> tokenAddr, From |-> from, Method |-> MethodApprove,
     Params |-> SerializeParams(<<from, amount>>), Value |-> 0]

\* Approve that carries the method number of Transfer
message3_Approve_AsTransfer(from, tokenAddr, spender, amount) ==
    [To |-> tokenAddr, From |-> from, Method |-> MethodTransfer,
     Params |-> SerializeParams(<<spender, amount>>), Value |-> 0]

message3_Approve(from, tokenAddr, spender, amount) ==
    [To |-> tokenAddr, From |-> from, Method |-> MethodApprove,
     Params |-> SerializeParams(<<spender, amount>>), Value |-> 0]

\* Message (api_token.go): the builder for an actors version; any version but
\* Version3 panics
Message(version, from) ==
    IF version = "Version3" THEN <<"message3", from>> ELSE <<"panic">>

\* ------------------------------------------- ledger state (token actor)
EmptyMap == [x \in {} |-> 0]

\* the account an address resolves to; NoAddr when there is none
ResolveAddress(a) ==
    IF a \in IDAddrs THEN a
    ELSE IF a = KeyAddr THEN "t01"
    ELSE IF a = OtherKeyAddr THEN "t02"
    ELSE NoAddr

\* Balances: absent key => 0
BalanceOf(bal, holder) == IF holder \in DOMAIN bal THEN bal[holder] ELSE 0

\* Approvals: absence at either level => 0
Allowance(apr, holder, spender) ==
    IF holder \in DOMAIN apr /\ spender \in DOMAIN apr[holder]
    THEN apr[holder][spender] ELSE 0

Credit(bal, holder, amount) ==
    [x \in DOMAIN bal \cup {holder} |->
        IF x = holder THEN BalanceOf(bal, x) + amount ELSE bal[x]]

Debit(bal, holder, amount) ==
    [x \in DOMAIN bal \cup {holder} |->
        IF x = holder THEN BalanceOf(bal, x) - amount ELSE bal[x]]

SetAllowance(apr, holder, spender, amount) ==
    [h \in DOMAIN apr \cup {holder} |->
        IF h = holder
        THEN [s \in (IF h \in DOMAIN apr THEN DOMAIN apr[h] ELSE {}) \cup {spender} |->
                 IF s = spender THEN amount ELSE apr[h][s]]
        ELSE apr[h]]

\* the outcome of a method: exit code and the state it leaves; a method that
\* fails leaves the state it was given (all its changes are discarded)
Outcome(exit, inf, bal, apr) ==
    [exit |-> exit, info |-> inf, balances |-> bal, approvals |-> apr]

\* constructor that runs again on a ledger that is already constructed
Constructor_Again(inf, bal, apr, p) ==
    Outcome("Ok",
            <<[Name |-> p[1], Symbol |-> p[2], Icon |-> p[3], Decimals |-> p[4],
               TotalSupply |-> p[5], Issuer |-> p[6]]>>,
            [x \in {p[6]} |-> p[5]],
            EmptyMap)

\* Create(info): the constructor
Constructor(inf, bal, apr, p) ==
    IF inf # <<>>
    THEN Outcome("AlreadyConstructed", inf, bal, apr)
    ELSE Outcome("Ok",
                 <<[Name |-> p[1], Symbol |-> p[2], Icon |-> p[3], Decimals |-> p[4],
                    TotalSupply |-> p[5], Issuer |-> p[6]]>>,
                 [x \in {p[6]} |-> p[5]],
                 EmptyMap)

\* Transfer that credits the balance it read before the debit
Transfer_StaleCredit(inf, bal, apr, from, p) ==
    LET to == p[1]
        amount == p[2]
    IN  IF BalanceOf(bal, from) < amount
        THEN Outcome("InsufficientBalance", inf, bal, apr)
        ELSE IF ResolveAddress(to) = NoAddr
        THEN Outcome("InvalidRecipient", inf, bal, apr)
        ELSE Outcome("Ok", inf,
                     [x \in DOMAIN bal \cup {from, ResolveAddress(to)} |->
                         IF x = ResolveAddress(to) THEN BalanceOf(bal, x) + amount
                         ELSE IF x = from THEN BalanceOf(bal, x) - amount
                         ELSE bal[x]],
                     apr)

\* Transfer(to, amount), called by from
Transfer(inf, bal, apr, from, p) ==
    LET to == p[1]
        amount == p[2]
    IN  IF BalanceOf(bal, from) < amount
        THEN Outcome("InsufficientBalance", inf, bal, apr)
        ELSE IF ResolveAddress(to) = NoAddr
        THEN Outcome("InvalidRecipient", inf, bal, apr)
        ELSE Outcome("Ok", inf,
                     Credit(Debit(bal, from, amount), ResolveAddress(to), amount), apr)

\* Approve(spender, amount), called by from
Approve(inf, bal, apr, from, p) ==
    Outcome("Ok", inf, bal, SetAllowance(apr, from, p[1], p[2]))

\* TransferFrom that takes the allowance before it checks the balance
TransferFrom_AllowanceFirst(inf, bal, apr, caller, p) ==
    LET holder == p[1]
        to == p[2]
        amount == p[3]
        taken == SetAllowance(apr, holder, caller,
                              Allowance(apr, holder, caller) - amount)
    IN  IF Allowance(apr, holder, caller) < amount
        THEN Outcome("InsufficientAllowance", inf, bal, apr)
        ELSE IF BalanceOf(bal, holder) < amount
        THEN Outcome("InsufficientBalance", inf, bal, taken)
        ELSE Outcome("Ok", inf, Credit(Debit(bal, holder, amount), to, amount), taken)

\* TransferFrom that checks the holder's balance before the allowance
TransferFrom_BalanceFirst(inf, bal, apr, caller, p) ==
    LET holder == p[1]
        to == p[2]
        amount == p[3]
    IN  IF BalanceOf(bal, holder) < amount
        THEN Outcome("InsufficientBalance", inf, bal, apr)
        ELSE IF Allowance(apr, holder, caller) < amount
        THEN Outcome("InsufficientAllowance", inf, bal, apr)
        ELSE Outcome("Ok", inf,
                     Credit(Debit(bal, holder, amount), to, amount),
                     SetAllowance(apr, holder, caller,
                                  Allowance(apr, holder, caller) - amount))

\* TransferFrom(holder, to, amount), called by the spender
TransferFrom(inf, bal, apr, caller, p) ==
    LET holder == p[1]
        to == p[2]
        amount == p[3]
    IN  IF Allowance(apr, holder, caller) < amount
        THEN Outcome("InsufficientAllowance", inf, bal, apr)
        ELSE IF BalanceOf(bal, holder) < amount
        THEN Outcome("InsufficientBalance", inf, bal, apr)
        ELSE Outcome("Ok", inf,
                     Credit(Debit(bal, holder, amount), to, amount),
                     SetAllowance(apr, holder, caller,
                                  Allowance(apr, holder, caller) - amount))

\* the inverse of SerializeParams
DeserializeParams(enc) == Tail(enc)

\* the engine's dispatch of one message by receiver and method number
Execute(inf, bal, apr, msg) ==
    LET p == DeserializeParams(msg.Params)
    IN  IF msg.To = InitAddr /\ msg.Method = MethodExec /\ p[1] = TokenActorCodeID
        THEN Constructor(inf, bal, apr, DeserializeParams(p[2]))
        ELSE IF msg.To = TokenAddr /\ msg.Method = MethodTransfer
        THEN Transfer(inf, bal, apr, msg.From, p)
        ELSE IF msg.To = TokenAddr /\ msg.Method = MethodTransferFrom
        THEN TransferFrom(inf, bal, apr, msg.From, p)
        ELSE IF msg.To = TokenAddr /\ msg.Method = MethodApprove
        THEN Approve(inf, bal, apr, msg.From, p)
        ELSE Outcome("SysErrInvalidReceiver", inf, bal, apr)

\* ----------------------------------------------------------- initial state
\* no command has been run on the command line
Idle == [stage |-> "idle"]

Init ==
    /\ nver \in NetworkVersions
    /\ crashed = FALSE
    /\ info = <<>>
    /\ balances = EmptyMap
    /\ approvals = EmptyMap
    /\ mpool = <<>>
    /\ last = <<>>
    /\ steps = 0
    /\ created = <<>>
    /\ granted = [h \in IDAddrs |-> [s \in IDAddrs |-> <<>>]]
    /\ built = <<>>
    /\ handle = <<>>
    /\ first = <<>>
    /\ ret = <<>>
    /\ term = Idle

\* StateGetActor(tokenAddr): the token actor exists once it is constructed
StateGetActor(tokenAddr) == tokenAddr = TokenAddr /\ info # <<>>

\* the call fn makes on the builder it is handed
BuildMessage(builder, call) ==
    LET from == builder[2]
    IN  CASE call.op = "Create" -> message3_Create(from, call.info)
          [] call.op = "Transfer" ->
                message3_Transfer(from, call.token, call.to, call.amount)
          [] call.op = "TransferFrom" ->
                message3_TransferFrom(from, call.token, call.holder, call.to, call.amount)
          [] call.op = "Approve" ->
                message3_Approve(from, call.token, call.spender, call.amount)

\* TokenAPI.pushMessage: version lookup, builder, build, MpoolPushMessage.
\* A failed lookup or push returns an error and changes nothing.
pushMessage(from, call) ==
    LET builder == Message(VersionForNetwork(nver), from)
    IN  IF builder[1] = "panic"
        THEN /\ crashed' = TRUE
             /\ UNCHANGED <<nver, info, balances, approvals, mpool, last, steps, created,
                            granted, aux>>
        ELSE /\ mpool' = Append(mpool, [call |-> call, msg |-> BuildMessage(builder, call)])
             /\ last' = <<>>
             /\ UNCHANGED <<nver, crashed, info, balances, approvals, steps, created,
                            granted, aux>>

\* a client submits one message and waits for its receipt (StateWaitMsg)
CanSubmit == ~crashed /\ mpool = <<>> /\ steps < MaxSteps

TokenCreate(creator, inf) ==
    /\ CanSubmit
    /\ pushMessage(creator, [op |-> "Create", from |-> creator, info |-> inf])

TokenTransfer(tokenAddr, from, to, amount) ==
    /\ CanSubmit
    /\ StateGetActor(tokenAddr)
    /\ pushMessage(from, [op |-> "Transfer", token |-> tokenAddr, from |-> from,
                          to |-> to, amount |-> amount])

TokenTransferFrom(tokenAddr, holder, from, to, amount) ==
    /\ CanSubmit
    /\ StateGetActor(tokenAddr)
    /\ pushMessage(from, [op |-> "TransferFrom", token |-> tokenAddr, from |-> from,
                          holder |-> holder, to |-> to, amount |-> amount])

TokenApprove(tokenAddr, holder, spender, amount) ==
    /\ CanSubmit
    /\ StateGetActor(tokenAddr)
    /\ pushMessage(holder, [op |-> "Approve", token |-> tokenAddr, from |-> holder,
                            spender |-> spender, amount |-> amount])

\* history: the Create call that constructed the ledger
NoteCreate(c, call, exit) ==
    IF exit = "Ok" /\ call.op = "Create" THEN <<call>> ELSE c

\* history of delegations: an Approve call of the holder starts a new grant, a
\* successful TransferFrom call of the spender adds the amount it moved out of
\* the holder (nothing, when the amount is negative) to the total moved
NoteGrant(g, call, exit) ==
    IF exit = "Ok" /\ call.op = "Approve"
    THEN [g EXCEPT ![call.from][call.spender] = <<call.amount, 0>>]
    ELSE IF exit = "Ok" /\ call.op = "TransferFrom" /\ g[call.holder][call.from] # <<>>
    THEN [g EXCEPT ![call.holder][call.from] = <<@[1], @[2] + (IF call.amount > 0 THEN call.amount ELSE 0)>>]
    ELSE g

\* a root: the content that a LedgerRoot hash addresses
Root(inf, bal, apr) == [info |-> inf, balances |-> bal, approvals |-> apr]

\* the execution engine applies the next pooled message to the ledger: it
\* derives the new root, which becomes the actor's head, and records the receipt
ApplyMessage ==
    /\ ~crashed
    /\ mpool # <<>>
    /\ LET m == Head(mpool)
           out == Execute(info, balances, approvals, m.msg)
       IN  /\ info' = out.info
           /\ balances' = out.balances
           /\ approvals' = out.approvals
           /\ last' = <<[call |-> m.call, exit |-> out.exit,
                         info |-> info, balances |-> balances, approvals |-> approvals]>>
           /\ created' = NoteCreate(created, m.call, out.exit)
           /\ granted' = NoteGrant(granted, m.call, out.exit)
    /\ mpool' = Tail(mpool)
    /\ steps' = steps + 1
    /\ UNCHANGED <<nver, crashed, aux>>

Next ==
    \/ CanSubmit /\ \E creator \in IDAddrs, inf \in Infos :
          TokenCreate(creator, inf) /\ UNCHANGED term
    \/ CanSubmit /\ \E from \in IDAddrs, to \in Addrs, amount \in Amounts :
          TokenTransfer(TokenAddr, from, to, amount) /\ UNCHANGED term
    \/ CanSubmit /\ \E holder \in IDAddrs, from \in IDAddrs, to \in Addrs, amount \in Amounts :
          TokenTransferFrom(TokenAddr, holder, from, to, amount) /\ UNCHANGED term
    \/ CanSubmit /\ \E holder \in IDAddrs, spender \in IDAddrs, amount \in Amounts :
          TokenApprove(TokenAddr, holder, spender, amount) /\ UNCHANGED term
    \/ ApplyMessage /\ UNCHANGED term

Spec == Init /\ [][Next]_vars

\* --------------------------------------------- the builder, used offline
\* a ledger that one Create, issued through the CLI, has constructed
InitLedger ==
    \E creator \in IDAddrs, inf \in Infos :
        LET call == [op |-> "Create", from |-> creator, info |-> inf]
            out == Execute(<<>>, EmptyMap, EmptyMap, message3_Create(creator, inf))
        IN  /\ nver = "nv10"
            /\ crashed = FALSE
            /\ info = out.info
            /\ balances = out.balances
            /\ approvals = out.approvals
            /\ mpool = <<>>
            /\ last = <<>>
            /\ steps = 1
            /\ created = <<call>>
            /\ granted = [h \in IDAddrs |-> [s \in IDAddrs |-> <<>>]]
            /\ built = <<>>
            /\ handle = <<>>
            /\ first = <<>>
            /\ ret = <<>>
            /\ term = Idle

\* the calls a client may make on a builder
BuildCalls ==
    [op : {"Create"}, from : IDAddrs, info : InfosGiven]
    \cup [op : {"Transfer"}, token : TokenAddrs, from : IDAddrs, to : Addrs,
          amount : Amounts]
    \cup [op : {"TransferFrom"}, token : TokenAddrs, from : IDAddrs, holder : IDAddrs,
          to : Addrs, amount : Amounts]
    \cup [op : {"Approve"}, token : TokenAddrs, from : IDAddrs, spender : IDAddrs,
          amount : Amounts]

\* what a builder call returned: the message and the error (the builders of
\* message3 return an error only when serialization fails, which it does not),
\* noted with the ledger as it was when the call was made
BuiltEntry(version, call) ==
    [version |-> version, call |-> call,
     msg |-> <<BuildMessage(Message(version, call.from), call)>>, err |-> "nil",
     at |-> Root(info, balances, approvals)]

\* a client asks for a builder and builds one message, without pushing it
BuildOffline(version, call) ==
    /\ ~crashed
    /\ built = <<>>
    /\ IF Message(version, call.from)[1] = "panic"
       THEN /\ crashed' = TRUE
            /\ UNCHANGED built
       ELSE /\ built' = <<BuiltEntry(version, call)>>
            /\ UNCHANGED crashed
    /\ UNCHANGED <<nver, info, balances, approvals, mpool, last, steps, created, granted,
                   handle, first, ret>>

\* the client builds once more with the arguments of its earlier call
BuildAgain ==
    /\ ~crashed
    /\ Len(built) = 1
    /\ built' = Append(built, BuiltEntry(built[1].version, built[1].call))
    /\ UNCHANGED <<nver, crashed, info, balances, approvals, mpool, last, steps, created,
                   granted, handle, first, ret>>

\* the client pushes the message it built last (MpoolPushMessage)
SubmitBuilt ==
    /\ CanSubmit
    /\ built # <<>>
    /\ LET b == built[Len(built)]
       IN  mpool' = Append(mpool, [call |-> b.call, msg |-> b.msg[1]])
    /\ last' = <<>>
    /\ UNCHANGED <<nver, crashed, info, balances, approvals, steps, created, granted, aux>>

NextBuild ==
    \/ \E version \in Versions, call \in BuildCalls :
          BuildOffline(version, call) /\ UNCHANGED term
    \/ BuildAgain /\ UNCHANGED term
    \/ SubmitBuilt /\ UNCHANGED term
    \/ ApplyMessage /\ UNCHANGED term

SpecBuild == InitLedger /\ [][NextBuild]_vars

\* ------------------------------------------------------------ state handle
\* the errors of the read side, by kind
UnsupportedVersion == "unknown actor code"
ActorNotFound == "actor not found"

\* what a read returns: the value, the error, and the store operations it made
Reply(val, err, io) == [val |-> val, err |-> err, io |-> io]

\* load3: one store.Get of the root, decoded into the state; the store is
\* content-addressed, so the state a root decodes to is the content it names
load3(root) == Reply(<<root>>, "nil", <<"Get">>)

\* Load that tries the token codec before it looks at the code tag
Load_Probe(act) ==
    IF act.Code = TokenActorCodeID
    THEN load3(act.Head)
    ELSE Reply(<<>>, UnsupportedVersion, load3(act.Head).io)

\* Load: the codec is chosen by the actor's code; no codec, no handle
Load(act) ==
    IF act.Code = TokenActorCodeID
    THEN load3(act.Head)
    ELSE Reply(<<>>, UnsupportedVersion, <<>>)

\* the order in which a map's keys are visited: fixed for a root
HamtOrder == <<"t01", "t02", "t1x", "t1a">>
Keys(m) == SelectSeq(HamtOrder, LAMBDA k : k \in DOMAIN m)

\* BalanceOf that looks the balance up at the ledger's current head
state3_BalanceOf_Live(s, holder) ==
    Reply(BalanceOf(balances, holder), "nil", <<"Get">>)

\* state3.BalanceOf: the lookup of the actor's state in the Balances map
state3_BalanceOf(s, holder) ==
    Reply(BalanceOf(s.balances, holder), "nil", <<"Get">>)

\* ApprovalsBy that returns after the first spender it reads
state3_ApprovalsBy_First(s, holder) ==
    IF holder \notin DOMAIN s.approvals
    THEN Reply(EmptyMap, "nil", <<"Get">>)
    ELSE Reply([sp \in {Keys(s.approvals[holder])[1]} |-> s.approvals[holder][sp]],
               "nil", <<"Get", "Get">>)

\* state3.ApprovalsBy: the spenders map of the holder; nil (empty) when the
\* holder has no entry
state3_ApprovalsBy(s, holder) ==
    IF holder \notin DOMAIN s.approvals
    THEN Reply(EmptyMap, "nil", <<"Get">>)
    ELSE Reply(s.approvals[holder], "nil", <<"Get", "Get">>)

\* the failure a visitor returns on an entry; <<>> is no error
Failure(e) == <<"visitor failed", e>>

\* Map.ForEach over the balances: the callback is called on each entry in
\* order; the first error it returns ends the traversal and is returned
RECURSIVE VisitHolders(_, _, _)
VisitHolders(s, keys, failing) ==
    IF keys = <<>>
    THEN [visited |-> <<>>, err |-> <<>>]
    ELSE LET e == <<Head(keys), s.balances[Head(keys)]>>
             rest == VisitHolders(s, Tail(keys), failing)
         IN  IF Head(keys) \in failing
             THEN [visited |-> <<e>>, err |-> Failure(e)]
             ELSE [visited |-> <<e>> \o rest.visited, err |-> rest.err]

\* state3.ForEachHolder with a visitor that fails on the holders in failing
state3_ForEachHolder(s, failing) == VisitHolders(s, Keys(s.balances), failing)

\* the inner ForEach over the spenders of one holder
RECURSIVE VisitSpenders(_, _, _, _)
VisitSpenders(s, holder, keys, failing) ==
    IF keys = <<>>
    THEN [visited |-> <<>>, err |-> <<>>]
    ELSE LET e == <<holder, Head(keys), s.approvals[holder][Head(keys)]>>
             rest == VisitSpenders(s, holder, Tail(keys), failing)
         IN  IF <<holder, Head(keys)>> \in failing
             THEN [visited |-> <<e>>, err |-> Failure(e)]
             ELSE [visited |-> <<e>> \o rest.visited, err |-> rest.err]

\* outer ForEach that drops the error of the inner one and goes on
RECURSIVE VisitApprovals_KeepGoing(_, _, _)
VisitApprovals_KeepGoing(s, keys, failing) ==
    IF keys = <<>>
    THEN [visited |-> <<>>, err |-> <<>>]
    ELSE LET inner == VisitSpenders(s, Head(keys), Keys(s.approvals[Head(keys)]), failing)
             rest == VisitApprovals_KeepGoing(s, Tail(keys), failing)
         IN  [visited |-> inner.visited \o rest.visited,
              err |-> IF inner.err # <<>> THEN inner.err ELSE rest.err]

\* the outer ForEach over the holders: the error of the inner ForEach is the
\* error of the outer callback, which ends the outer traversal
RECURSIVE VisitApprovals(_, _, _)
VisitApprovals(s, keys, failing) ==
    IF keys = <<>>
    THEN [visited |-> <<>>, err |-> <<>>]
    ELSE LET inner == VisitSpenders(s, Head(keys), Keys(s.approvals[Head(keys)]), failing)
             rest == VisitApprovals(s, Tail(keys), failing)
         IN  IF inner.err # <<>>
             THEN inner
             ELSE [visited |-> inner.visited \o rest.visited, err |-> rest.err]

state3_ForEachApproval_KeepGoing(s, failing) ==
    VisitApprovals_KeepGoing(s, Keys(s.approvals), failing)

\* state3.ForEachApproval with a visitor that fails on the pairs in failing
state3_ForEachApproval(s, failing) == VisitApprovals(s, Keys(s.approvals), failing)

\* ----------------------------------------------------------------- readers
\* the addresses a caller may name as the token: the ledger, and an account
QueryAddrs == {TokenAddr, "t01"}

\* StateGetActor: the actor at an address, <<>> when there is none; the head of
\* the token actor is the root of the ledger as the last applied message left it
ActorAt(addr) ==
    IF addr = TokenAddr /\ info # <<>>
    THEN <<[Code |-> TokenActorCodeID, Head |-> Root(info, balances, approvals)]>>
    ELSE IF addr \in IDAddrs
    THEN <<[Code |-> AccountActorCodeID, Head |-> [Address |-> addr]]>>
    ELSE <<>>

\* StateLookupID: the ID address an address resolves to, or an error
StateLookupID(a) ==
    IF ResolveAddress(a) = NoAddr
    THEN [id |-> NoAddr, err |-> ActorNotFound]
    ELSE [id |-> ResolveAddress(a), err |-> "nil"]

\* the ledger restricted to a few mutations, for the specifications of the
\* readers: transfers of one token between accounts, approvals of MaxAmount
Mutate ==
    \/ \E from \in IDAddrs, to \in IDAddrs :
          to # from /\ TokenTransfer(TokenAddr, from, to, 1) /\ UNCHANGED term
    \/ \E holder \in IDAddrs, spender \in IDAddrs :
          TokenApprove(TokenAddr, holder, spender, MaxAmount) /\ UNCHANGED term
    \/ ApplyMessage /\ UNCHANGED term

\* a reader loads the state of the token actor at its current head and keeps
\* the handle
LoadHandle ==
    /\ ~crashed
    /\ handle = <<>>
    /\ ActorAt(TokenAddr) # <<>>
    /\ Load(ActorAt(TokenAddr)[1]).err = "nil"
    /\ handle' = Load(ActorAt(TokenAddr)[1]).val
    /\ UNCHANGED <<nver, crashed, info, balances, approvals, mpool, last, steps, created,
                   granted, built, first, ret>>

\* a read on a handle
HandleRead(s, op, holder) ==
    IF op = "BalanceOf" THEN state3_BalanceOf(s, holder) ELSE state3_ApprovalsBy(s, holder)

\* the reader's first read on the handle it holds
ReadHandle(op, holder) ==
    /\ ~crashed
    /\ handle # <<>>
    /\ first = <<>>
    /\ first' = <<[op |-> op, holder |-> holder,
                   val |-> HandleRead(handle[1], op, holder).val]>>
    /\ UNCHANGED <<nver, crashed, info, balances, approvals, mpool, last, steps, created,
                   granted, built, handle, ret>>

NextSnap ==
    \/ Mutate
    \/ LoadHandle /\ UNCHANGED term
    \/ \E op \in {"BalanceOf", "ApprovalsBy"}, holder \in Addrs :
          ReadHandle(op, holder) /\ UNCHANGED term

SpecSnap == InitLedger /\ [][NextSnap]_vars

\* a query is answered: its result goes to the caller and nothing else changes
Answer(r) ==
    /\ ~crashed
    /\ ret' = <<r>>
    /\ UNCHANGED <<nver, crashed, info, balances, approvals, mpool, last, steps, created,
                   granted, built, handle, first>>

\* TokenAPI.TokenBalanceOf
TokenBalanceOf(tokenAddr, holder) ==
    LET actor == ActorAt(tokenAddr)
        id == StateLookupID(holder)
        state == Load(actor[1])
        reply ==
            IF actor = <<>> THEN Reply(0, ActorNotFound, <<>>)
            ELSE IF id.err # "nil" THEN Reply(0, id.err, <<>>)
            ELSE IF state.err # "nil" THEN Reply(0, state.err, state.io)
            ELSE LET r == state3_BalanceOf(state.val[1], id.id)
                 IN  Reply(r.val, r.err, state.io \o r.io)
    IN  Answer([op |-> "TokenBalanceOf", token |-> tokenAddr, holder |-> holder,
                val |-> reply.val, err |-> reply.err, io |-> reply.io,
                at |-> Root(info, balances, approvals)])

\* TokenAPI.TokenGetSpendersOf
TokenGetSpendersOf(tokenAddr, holder) ==
    LET actor == ActorAt(tokenAddr)
        state == Load(actor[1])
        reply ==
            IF actor = <<>> THEN Reply(EmptyMap, ActorNotFound, <<>>)
            ELSE IF state.err # "nil" THEN Reply(EmptyMap, state.err, state.io)
            ELSE LET r == state3_ApprovalsBy(state.val[1], holder)
                 IN  Reply(r.val, r.err, state.io \o r.io)
    IN  Answer([op |-> "TokenGetSpendersOf", token |-> tokenAddr, holder |-> holder,
                val |-> reply.val, err |-> reply.err, io |-> reply.io,
                at |-> Root(info, balances, approvals)])

\* TokenAPI.TokenInfo
TokenInfo(tokenAddr) ==
    LET actor == ActorAt(tokenAddr)
        state == Load(actor[1])
        reply ==
            IF actor = <<>> THEN Reply(<<>>, ActorNotFound, <<>>)
            ELSE IF state.err # "nil" THEN Reply(<<>>, state.err, state.io)
            ELSE Reply(state.val[1].info, "nil", state.io)
    IN  Answer([op |-> "TokenInfo", token |-> tokenAddr,
                val |-> reply.val, err |-> reply.err, io |-> reply.io,
                at |-> Root(info, balances, approvals)])

\* StateAccountKey: the public-key address of an account actor, or an error;
\* the actors in noKey have no key to give (an actor that is not an account,
\* or one whose state cannot be read)
StateAccountKey(id, noKey) ==
    IF id \in IDAddrs \ noKey
    THEN [key |-> IF id = "t01" THEN KeyAddr ELSE OtherKeyAddr, err |-> "nil"]
    ELSE [key |-> UndefAddr, err |-> "failed to get account key"]

\* TokenAPI.TokenGetHolders: one api.Holder per entry ForEachHolder visits; the
\* callback drops the error of StateAccountKey and never fails
TokenGetHolders(tokenAddr, noKey) ==
    LET actor == ActorAt(tokenAddr)
        state == Load(actor[1])
        walk == state3_ForEachHolder(state.val[1], {})
        holders == [i \in 1..Len(walk.visited) |->
                       [IDAddress |-> walk.visited[i][1],
                        PubKeyAddress |-> StateAccountKey(walk.visited[i][1], noKey).key,
                        Balance |-> walk.visited[i][2]]]
        reply ==
            IF actor = <<>> THEN Reply(<<>>, ActorNotFound, <<>>)
            ELSE IF state.err # "nil" THEN Reply(<<>>, state.err, state.io)
            ELSE Reply(holders, IF walk.err = <<>> THEN "nil" ELSE walk.err,
                       state.io \o <<"Get">>)
    IN  Answer([op |-> "TokenGetHolders", token |-> tokenAddr, noKey |-> noKey,
                val |-> reply.val, err |-> reply.err, io |-> reply.io,
                at |-> Root(info, balances, approvals)])

\* the sets of entries a visitor may fail on
HolderFailing == SUBSET IDAddrs
PairFailing ==
    {{}} \cup {{<<h, s>>} : h \in IDAddrs, s \in IDAddrs} \cup {IDAddrs \X IDAddrs}

\* a client loads the token actor's state and traverses its holders
ForEachHolder(failing) ==
    /\ ActorAt(TokenAddr) # <<>>
    /\ Load(ActorAt(TokenAddr)[1]).err = "nil"
    /\ LET r == state3_ForEachHolder(Load(ActorAt(TokenAddr)[1]).val[1], failing)
       IN  Answer([op |-> "ForEachHolder", failing |-> failing,
                   visited |-> r.visited, err |-> r.err,
                   at |-> Root(info, balances, approvals)])

\* a client loads the token actor's state and traverses its approvals
ForEachApproval(failing) ==
    /\ ActorAt(TokenAddr) # <<>>
    /\ Load(ActorAt(TokenAddr)[1]).err = "nil"
    /\ LET r == state3_ForEachApproval(Load(ActorAt(TokenAddr)[1]).val[1], failing)
       IN  Answer([op |-> "ForEachApproval", failing |-> failing,
                   visited |-> r.visited, err |-> r.err,
                   at |-> Root(info, balances, approvals)])

\* the ledger mutates, before and after the one query a behaviour follows
NextQuery ==
    \/ Mutate
    \/ \E tokenAddr \in QueryAddrs, holder \in HolderArgs :
          ret = <<>> /\ TokenBalanceOf(tokenAddr, holder) /\ UNCHANGED term
    \/ \E tokenAddr \in QueryAddrs, holder \in HolderArgs :
          ret = <<>> /\ TokenGetSpendersOf(tokenAddr, holder) /\ UNCHANGED term
    \/ \E tokenAddr \in QueryAddrs :
          ret = <<>> /\ TokenInfo(tokenAddr) /\ UNCHANGED term
    \/ \E tokenAddr \in QueryAddrs, noKey \in SUBSET IDAddrs :
          ret = <<>> /\ TokenGetHolders(tokenAddr, noKey) /\ UNCHANGED term
    \/ \E failing \in HolderFailing :
          ret = <<>> /\ ForEachHolder(failing) /\ UNCHANGED term
    \/ \E failing \in PairFailing :
          ret = <<>> /\ ForEachApproval(failing) /\ UNCHANGED term

SpecQuery == InitLedger /\ [][NextQuery]_vars

\* ------------------------------------------------------------ command line
\* everything but the terminal of the command-line client
node == <<nver, crashed, info, balances, approvals, mpool, last, steps, created, granted,
          built, handle, first, ret>>

\* api.WalletDefaultAddress
WalletDefault == "t01"

\* amounts given on the command line
CliAmounts == {1, MaxAmount}

\* cctx.String(name): the value given for the flag; the empty string when the
\* flag is not given, or when the command declares no flag of that name
cctx_String(flags, name) == IF name \in DOMAIN flags THEN flags[name] ELSE ""

\* cctx.Args().Get(n): the argument at index n, counted from 0; the empty
\* string when there is none
Args_Get(args, n) == IF n < Len(args) THEN args[n + 1] ELSE ""

\* address.NewFromString: the empty string decodes to the undefined address
\* without an error; every other string given here is a well-formed address
NewFromString(str) == IF str = "" THEN UndefAddr ELSE str

\* the holder or sender flag of a command, defaulting to the wallet's address
AddressOrDefault(str) == IF str = "" THEN WalletDefault ELSE NewFromString(str)

\* the command lines a user may type: the flags given and the arguments
CreateCmds ==
    {[name |-> "create", flags |-> ("owner" :> o) @@ ("supply" :> s), args |-> <<>>] :
        o \in {"", "t02"}, s \in {MaxSupply}}
TransferCmds ==
    {[name |-> "transfer",
      flags |-> ("delegated-from" :> d) @@ ("sender" :> s) @@ ("token" :> t),
      args |-> <<r, a>>] :
        d \in {"", "t01", "t02"}, s \in {"", "t02"}, t \in TokenAddrs, r \in IDAddrs,
        a \in CliAmounts}
ApproveCmds ==
    {[name |-> "approve", flags |-> ("from" :> f) @@ ("token" :> t), args |-> <<d, a>>] :
        f \in {"", "t02"}, t \in TokenAddrs, d \in IDAddrs, a \in CliAmounts}
DelegationsCmds ==
    {[name |-> "delegations", flags |-> ("token" :> t), args |-> a] :
        t \in TokenAddrs, a \in {<<"t01">>, <<"t02">>, <<KeyAddr>>, <<"t01", "t02">>}}
MutatingCmds == CreateCmds \cup TransferCmds \cup ApproveCmds

\* the API call a command makes, with its arguments in the order it passes
\* them; ShowHelp when the number of arguments is wrong
ShowHelp == <<"ShowHelp">>

tokenCreateCmd(flags, args) ==
    <<"TokenCreate", AddressOrDefault(cctx_String(flags, "owner")),
      [Name |-> "Foo", Symbol |-> "FOO", Icon |-> "svg", Decimals |-> "18",
       TotalSupply |-> cctx_String(flags, "supply"), Issuer |-> NoAddr]>>

\* transfer that passes the sender where the API takes the holder
tokenTransferCmd_Swapped(flags, args) ==
    LET sender == AddressOrDefault(cctx_String(flags, "sender"))
        token == NewFromString(cctx_String(flags, "token"))
        recipient == NewFromString(Args_Get(args, 0))
        amount == Args_Get(args, 1)
        dfrom == cctx_String(flags, "delegated-from")
    IN  IF Len(args) # 2 THEN ShowHelp
        ELSE IF dfrom # ""
        THEN <<"TokenTransferFrom", token, sender, NewFromString(dfrom), recipient, amount>>
        ELSE <<"TokenTransfer", token, sender, recipient, amount>>

tokenTransferCmd(flags, args) ==
    LET sender == AddressOrDefault(cctx_String(flags, "sender"))
        token == NewFromString(cctx_String(flags, "token"))
        recipient == NewFromString(Args_Get(args, 0))
        amount == Args_Get(args, 1)
        dfrom == cctx_String(flags, "delegated-from")
    IN  IF Len(args) # 2 THEN ShowHelp
        ELSE IF dfrom # ""
        THEN <<"TokenTransferFrom", token, NewFromString(dfrom), sender, recipient, amount>>
        ELSE <<"TokenTransfer", token, sender, recipient, amount>>

\* the command declares the flag "from" and reads the flag "holder"
tokenApproveCmd(flags, args) ==
    LET holder == AddressOrDefault(cctx_String(flags, "holder"))
        token == NewFromString(cctx_String(flags, "token"))
        delegate == NewFromString(Args_Get(args, 0))
        amount == Args_Get(args, 1)
    IN  IF Len(args) # 2 THEN ShowHelp
        ELSE <<"TokenApprove", token, holder, delegate, amount>>

\* the command takes one argument and reads the argument at index 1
tokenDelegationsCmd(flags, args) ==
    LET token == NewFromString(cctx_String(flags, "token"))
        holderAddr == NewFromString(Args_Get(args, 1))
    IN  IF Len(args) # 1 THEN ShowHelp
        ELSE <<"TokenGetSpendersOf", token, holderAddr>>

ApiCallOf(cmd) ==
    CASE cmd.name = "create" -> tokenCreateCmd(cmd.flags, cmd.args)
      [] cmd.name = "transfer" -> tokenTransferCmd(cmd.flags, cmd.args)
      [] cmd.name = "approve" -> tokenApproveCmd(cmd.flags, cmd.args)
      [] cmd.name = "delegations" -> tokenDelegationsCmd(cmd.flags, cmd.args)

\* the address an API mutation call hands to pushMessage as the sender
SenderOf(c) == IF c[1] = "TokenTransferFrom" THEN c[4] ELSE IF c[1] = "TokenCreate" THEN c[2] ELSE c[3]

\* the lookups of the node that may fail while it serves a call
Faults == {"none", "StateNetworkVersion", "MpoolPushMessage"}

\* the error an API mutation call returns, with cid.Undef, without pushing a
\* message: the token actor is not found, the network version cannot be read,
\* or the pool refuses the message built; "nil" when there is no such error
ApiError(c, fault) ==
    IF c[1] # "TokenCreate" /\ ~StateGetActor(c[2])
    THEN "failed to load token actor"
    ELSE IF fault = "StateNetworkVersion"
    THEN "failed to get network version"
    ELSE IF fault = "MpoolPushMessage" /\ Message(VersionForNetwork(nver), SenderOf(c))[1] # "panic"
    THEN "failed to push message"
    ELSE "nil"

\* the node serves the API call c
Serve(c) ==
    \/ c[1] = "TokenCreate" /\ TokenCreate(c[2], c[3])
    \/ c[1] = "TokenTransfer" /\ TokenTransfer(c[2], c[3], c[4], c[5])
    \/ c[1] = "TokenTransferFrom" /\ TokenTransferFrom(c[2], c[3], c[4], c[5], c[6])
    \/ c[1] = "TokenApprove" /\ TokenApprove(c[2], c[3], c[4], c[5])

\* the identifier of a message, and cid.Undef
Cid(msg) == <<"cid", msg>>
CidUndef == <<>>

\* the terminal after the command's API call: api is what the call returned
\* (<<>> when the node died before it answered), pushed the number of messages
\* the call added to the pool, err the error the command has returned so far
Terminal(stage, cmd, c, api, pushed, out, err) ==
    [stage |-> stage, cmd |-> cmd, call |-> c, api |-> api, pushed |-> pushed,
     out |-> out, err |-> err, steps |-> steps]

\* a mutating command: it parses its flags and arguments, prints what it is
\* about to do, makes its one API call and prints the message CID; an error of
\* the call ends the command
RunCommand(cmd, fault) ==
    /\ term = Idle
    /\ CanSubmit
    /\ LET c == ApiCallOf(cmd)
           intro == <<<<cmd.name, c>>>>
       IN  IF c = ShowHelp
           THEN /\ term' = Terminal("done", cmd, c, <<>>, 0, <<>>, "usage")
                /\ UNCHANGED node
           ELSE IF ApiError(c, fault) # "nil"
           THEN /\ term' = Terminal("done", cmd, c,
                                    <<[id |-> CidUndef, err |-> ApiError(c, fault)]>>,
                                    0, intro, ApiError(c, fault))
                /\ UNCHANGED node
           ELSE /\ Serve(c)
                /\ term' = IF crashed'
                           THEN Terminal("done", cmd, c, <<>>, Len(mpool') - Len(mpool),
                                         intro, "connection lost")
                           ELSE LET id == Cid(mpool'[Len(mpool')].msg)
                                IN  Terminal("waiting", cmd, c,
                                             <<[id |-> id, err |-> "nil"]>>,
                                             Len(mpool') - Len(mpool),
                                             Append(intro, <<"message CID", id>>), "nil")

\* the message an applied call was built into
MessageOf(call) == BuildMessage(Message(VersionForNetwork(nver), call.from), call)

\* StateWaitMsg: the receipt of the message with the given id, once the engine
\* has applied it
StateWaitMsg(id) ==
    IF last # <<>> /\ Cid(MessageOf(last[1].call)) = id
    THEN <<[ExitCode |-> last[1].exit]>>
    ELSE <<>>

\* processResult that reports success without looking at the exit code
processResult_Blind(result) ==
    [out |-> <<<<"transaction succeeded">>>>, err |-> "nil"]

\* processResult: what it prints and the error it returns
processResult(result) ==
    IF result.ExitCode # "Ok"
    THEN [out |-> <<<<"transaction failed; exit code", result.ExitCode>>>>,
          err |-> "transaction failed"]
    ELSE [out |-> <<<<"transaction succeeded">>>>, err |-> "nil"]

\* StateWaitMsg returns the receipt to the command, which reports it and ends;
\* create goes on to print the address of the new actor
AwaitReceipt ==
    /\ ~crashed
    /\ term.stage = "waiting"
    /\ StateWaitMsg(term.api[1].id) # <<>>
    /\ LET res == processResult(StateWaitMsg(term.api[1].id)[1])
           more == IF res.err = "nil" /\ term.cmd.name = "create"
                   THEN <<<<"created new token actor", TokenAddr>>>>
                   ELSE <<>>
       IN  term' = [term EXCEPT !.stage = "done", !.out = @ \o res.out \o more,
                                !.err = res.err]
    /\ UNCHANGED node

\* the delegations command: one TokenGetSpendersOf call, one line per entry
RunDelegations(cmd) ==
    /\ term = Idle
    /\ ~crashed
    /\ LET c == ApiCallOf(cmd)
       IN  IF c = ShowHelp
           THEN /\ term' = Terminal("done", cmd, c, <<>>, 0, <<>>, "usage")
                /\ UNCHANGED node
           ELSE /\ TokenGetSpendersOf(c[2], c[3])
                /\ term' = Terminal("done", cmd, c, ret', 0,
                                    [i \in 1..Len(Keys(ret'[1].val)) |->
                                        <<Keys(ret'[1].val)[i],
                                          ret'[1].val[Keys(ret'[1].val)[i]]>>],
                                    ret'[1].err)

\* one command is run, on a ledger a few mutations have prepared
NextCli ==
    \/ term = Idle /\ Mutate
    \/ \E cmd \in MutatingCmds, fault \in Faults : RunCommand(cmd, fault)
    \/ \E cmd \in DelegationsCmds : RunDelegations(cmd)
    \/ term.stage = "waiting" /\ ApplyMessage /\ UNCHANGED term
    \/ AwaitReceipt

SpecCli == (Init \/ InitLedger) /\ [][NextCli]_vars

\* ------------------------------------------------------------ properties
RECURSIVE SumOver(_, _)
SumOver(bal, keys) ==
    IF keys = {} THEN 0
    ELSE LET k == CHOOSE x \in keys : TRUE
         IN  bal[k] + SumOver(bal, keys \ {k})

\* sum of all balances of a Balances map
SumBalances(bal) == SumOver(bal, DOMAIN bal)

\* the record of the message applied last
Applied == last # <<>>
L == last[1]
IsApplied(op) == Applied /\ L.call.op = op

\* 1 when x is the account a, else 0
Is(x, a) == IF x = a THEN 1 ELSE 0

\* every allowance but that of (holder, spender) is what it was before the message
OtherAllowancesKept(holder, spender) ==
    \A h \in Addrs, s \in Addrs :
        (h # holder \/ s # spender) =>
            Allowance(approvals, h, s) = Allowance(L.approvals, h, s)

AllowancesKept ==
    \A h \in Addrs, s \in Addrs :
        Allowance(approvals, h, s) = Allowance(L.approvals, h, s)

\* C1: conservation: once a Create call with total supply S has constructed the
\* ledger, the sum of all balances is S after every applied message, whether it
\* succeeded or failed.
C1_Conservation ==
    created # <<>> => SumBalances(balances) = created[1].info.TotalSupply

C1_Witness ==
    /\ IsApplied("TransferFrom") /\ L.exit = "Ok" /\ L.call.amount > 0
    /\ L.call.to # L.call.holder
    /\ steps = MaxSteps

\* C2: non-negativity: every balance and every allowance of every reachable
\* ledger state is >= 0, whatever messages the builder produced.
C2_NonNegative ==
    /\ \A h \in Addrs : BalanceOf(balances, h) >= 0
    /\ \A h \in Addrs, s \in Addrs : Allowance(approvals, h, s) >= 0

\* C3: atomicity on failure: when the message applied last failed, TokenInfo,
\* every balance and every allowance are what they were before the message.
C3_FailureAtomic ==
    (Applied /\ L.exit # "Ok") =>
        /\ info = L.info
        /\ balances = L.balances
        /\ approvals = L.approvals

C3_Witness ==
    /\ IsApplied("TransferFrom") /\ L.exit = "InsufficientBalance"
    /\ Allowance(approvals, L.call.holder, L.call.from) > 0
    /\ L.call.amount > 0

\* C4: a Transfer(to, amount) call of `from` fails with InsufficientBalance when
\* balance(from) < amount; otherwise, with a resolvable recipient, it debits
\* `from` by amount, credits `to` by amount and changes no other balance and
\* no allowance.
C4_Transfer ==
    IsApplied("Transfer") =>
        LET c == L.call
        IN  /\ BalanceOf(L.balances, c.from) < c.amount
                => L.exit = "InsufficientBalance"
            /\ (BalanceOf(L.balances, c.from) >= c.amount /\ c.to \in IDAddrs) =>
                /\ L.exit = "Ok"
                /\ \A x \in Addrs :
                      BalanceOf(balances, x) =
                          BalanceOf(L.balances, x) - c.amount * Is(x, c.from)
                                                   + c.amount * Is(x, c.to)
                /\ AllowancesKept

C4_Witness ==
    /\ IsApplied("Transfer") /\ L.exit = "Ok"
    /\ L.call.amount > 0 /\ L.call.to # L.call.from
    /\ BalanceOf(balances, L.call.from) > 0

\* C5: a successful TransferFrom(holder, to, amount) call of a spender debits
\* the holder by amount, credits `to` by amount and leaves
\* approvals[holder][spender] at its previous value minus amount; every other
\* balance and allowance is unchanged.
C5_TransferFrom ==
    (IsApplied("TransferFrom") /\ L.exit = "Ok") =>
        LET c == L.call
        IN  /\ \A x \in Addrs :
                  BalanceOf(balances, x) =
                      BalanceOf(L.balances, x) - c.amount * Is(x, c.holder)
                                               + c.amount * Is(x, c.to)
            /\ Allowance(approvals, c.holder, c.from) =
                  Allowance(L.approvals, c.holder, c.from) - c.amount
            /\ OtherAllowancesKept(c.holder, c.from)

C5_Witness ==
    /\ IsApplied("TransferFrom") /\ L.exit = "Ok"
    /\ L.call.amount > 0
    /\ L.call.from # L.call.holder
    /\ Allowance(approvals, L.call.holder, L.call.from) > 0

\* C6: no overspend: the total amount the successful TransferFrom calls of a
\* spender moved out of a holder since the holder's latest Approve(spender, A)
\* call never exceeds A.
C6_NoOverspend ==
    \A h \in IDAddrs, s \in IDAddrs :
        granted[h][s] # <<>> => granted[h][s][2] <= granted[h][s][1]

C6_Witness ==
    \E h \in IDAddrs, s \in IDAddrs :
        /\ h # s
        /\ granted[h][s] # <<>>
        /\ granted[h][s][1] > 0
        /\ granted[h][s][2] = granted[h][s][1]
        /\ IsApplied("TransferFrom") /\ L.exit = "Ok"
        /\ L.call.holder = h /\ L.call.from = s

\* C7: authorization: the balance of an account X decreases in a step only if
\* the message is a Transfer sent by X, or a TransferFrom naming X as holder
\* whose sender had approvals[X][sender] >= amount before the step.
C7_Authorized ==
    Applied =>
        \A x \in Addrs :
            BalanceOf(balances, x) < BalanceOf(L.balances, x) =>
                \/ L.call.op = "Transfer" /\ L.call.from = x
                \/ /\ L.call.op = "TransferFrom" /\ L.call.holder = x
                   /\ Allowance(L.approvals, x, L.call.from) >= L.call.amount

\* C8: an Approve(spender, amount) call of `from` sets approvals[from][spender]
\* to exactly amount whatever it was before, accepts amount 0, and changes no
\* balance and no other allowance.
C8_Approve ==
    IsApplied("Approve") =>
        LET c == L.call
        IN  /\ L.exit = "Ok"
            /\ Allowance(approvals, c.from, c.spender) = c.amount
            /\ \A x \in Addrs : BalanceOf(balances, x) = BalanceOf(L.balances, x)
            /\ OtherAllowancesKept(c.from, c.spender)

C8_Witness ==
    /\ IsApplied("Approve")
    /\ Allowance(L.approvals, L.call.from, L.call.spender) > 0
    /\ L.call.amount = 0
    /\ Allowance(approvals, L.call.from, L.call.spender) = 0

\* C9: revocation: after a holder's Approve(spender, 0), every TransferFrom on
\* that holder sent by that spender, for any amount, fails with
\* InsufficientAllowance until the holder approves the spender again.
C9_Revoked ==
    (/\ IsApplied("TransferFrom")
     /\ L.call.holder \in IDAddrs
     /\ granted[L.call.holder][L.call.from] # <<>>
     /\ granted[L.call.holder][L.call.from][1] = 0)
        => L.exit = "InsufficientAllowance"

\* C10: a Create call on a fresh ledger sets totalSupply to the supply given
\* and leaves a Balances map with exactly one entry, the issuer holding the
\* entire supply; every other balance is 0 and there are no approvals.
C10_Create ==
    (IsApplied("Create") /\ L.info = <<>>) =>
        LET c == L.call
        IN  /\ L.exit = "Ok"
            /\ info # <<>>
            /\ info[1].TotalSupply = c.info.TotalSupply
            /\ info[1].Issuer = c.from
            /\ DOMAIN balances = {c.from}
            /\ balances[c.from] = c.info.TotalSupply
            /\ \A x \in Addrs \ {c.from} : BalanceOf(balances, x) = 0
            /\ \A h \in Addrs, s \in Addrs : Allowance(approvals, h, s) = 0
            /\ approvals = EmptyMap

C10_Witness ==
    /\ IsApplied("Create") /\ L.info = <<>> /\ L.exit = "Ok"
    /\ L.call.info.TotalSupply = MaxSupply

\* the TokenInfo a Create call constructs
InfoOf(call) ==
    [Name |-> call.info.Name, Symbol |-> call.info.Symbol, Icon |-> call.info.Icon,
     Decimals |-> call.info.Decimals, TotalSupply |-> call.info.TotalSupply,
     Issuer |-> call.from]

\* C11: a Create applied to a ledger that is already constructed fails with
\* AlreadyConstructed, and once the ledger is constructed no applied message
\* changes its TokenInfo: it stays the one the constructing Create set.
C11_CreateOnce ==
    /\ (IsApplied("Create") /\ L.info # <<>>) => L.exit = "AlreadyConstructed"
    /\ (Applied /\ L.info # <<>>) => info = L.info
    /\ created # <<>> => info = <<InfoOf(created[1])>>

C11_Witness ==
    /\ IsApplied("Create") /\ L.info # <<>>
    /\ L.exit = "AlreadyConstructed"
    /\ L.call.info.TotalSupply # L.info[1].TotalSupply
    /\ L.call.from # L.info[1].Issuer

\* C13: no crash state is reachable: with an unsupported actors version an API
\* mutation call returns an error and the node process keeps running.
C13_NoCrash == ~crashed

\* the built entries of the Transfer, TransferFrom and Approve calls
BuiltMoves == {i \in DOMAIN built : built[i].call.op # "Create"}
BuiltCreates == {i \in DOMAIN built : built[i].call.op = "Create"}

\* the constructor params a built Create message carries
CtorParams(m) == DeserializeParams(DeserializeParams(m.Params)[2])

\* C14: the builder's Transfer, TransferFrom and Approve return a BuildError and
\* no message when the amount is negative, and a message only for amounts >= 0.
C14_NegativeRefused ==
    \A i \in BuiltMoves :
        /\ built[i].call.amount < 0 => (built[i].err = "BuildError" /\ built[i].msg = <<>>)
        /\ built[i].msg # <<>> => built[i].call.amount >= 0

\* C15: every message built by Transfer, TransferFrom and Approve has the
\* builder's sender as from, the ledger address passed in as to, value 0, the
\* method number of its operation, and params that carry exactly the parties
\* and the amount given.
C15_MessageFields ==
    \A i \in BuiltMoves :
        LET c == built[i].call
            m == built[i].msg[1]
            p == DeserializeParams(m.Params)
        IN  /\ built[i].msg # <<>>
            /\ m.From = c.from
            /\ m.To = c.token
            /\ m.Value = 0
            /\ c.op = "Transfer" => (m.Method = MethodTransfer /\ p = <<c.to, c.amount>>)
            /\ c.op = "TransferFrom" =>
                  (m.Method = MethodTransferFrom /\ p = <<c.holder, c.to, c.amount>>)
            /\ c.op = "Approve" => (m.Method = MethodApprove /\ p = <<c.spender, c.amount>>)

C15_Witness ==
    /\ \E i \in BuiltMoves :
          /\ built[i].call.op = "TransferFrom" /\ built[i].call.token = OtherTokenAddr
          /\ built[i].call.holder # built[i].call.from
          /\ built[i].call.to = UnknownAddr /\ built[i].call.amount = MaxAmount
    /\ Len(built) > 1

\* C16 as stated: the constructor params of a built Create carry every field of
\* the TokenInfo given, the issuer included.
C16_AllFields ==
    \A i \in BuiltCreates :
        LET inf == built[i].call.info
        IN  CtorParams(built[i].msg[1]) =
                <<inf.Name, inf.Symbol, inf.Icon, inf.Decimals, inf.TotalSupply, inf.Issuer>>

\* C16: the constructor params of the message built by Create(info) carry the
\* name, symbol, icon, decimals and totalSupply of the info given; the issuer
\* they carry is the builder's sender, whatever issuer the info names.
C16_Create ==
    \A i \in BuiltCreates :
        LET inf == built[i].call.info
            m == built[i].msg[1]
        IN  /\ m.To = InitAddr /\ m.From = built[i].call.from /\ m.Method = MethodExec
            /\ DeserializeParams(m.Params)[1] = TokenActorCodeID
            /\ CtorParams(m) =
                  <<inf.Name, inf.Symbol, inf.Icon, inf.Decimals, inf.TotalSupply,
                    built[i].call.from>>

C16_Witness ==
    \E i \in BuiltCreates :
        /\ built[i].call.info.Issuer \in IDAddrs
        /\ built[i].call.info.Issuer # built[i].call.from
        /\ built[i].call.info.TotalSupply = MaxSupply

\* a Transfer, TransferFrom or Approve call that the ledger cannot honour: the
\* balance or the allowance it draws on is short of the amount
Shortfall(c, root) ==
    \/ c.op = "Transfer" /\ BalanceOf(root.balances, c.from) < c.amount
    \/ /\ c.op = "TransferFrom"
       /\ \/ BalanceOf(root.balances, c.holder) < c.amount
          \/ Allowance(root.approvals, c.holder, c.from) < c.amount

\* C17: the builders are independent of the ledger state: two calls with the
\* same version, sender, ledger, parties and amount return the same message
\* whatever the balances and allowances are when they are made, and a call the
\* ledger cannot honour still returns a message and no error.
C17_StateIndependent ==
    /\ \A i \in DOMAIN built, j \in DOMAIN built :
          (built[i].version = built[j].version /\ built[i].call = built[j].call)
              => (built[i].msg = built[j].msg /\ built[i].err = built[j].err)
    /\ \A i \in BuiltMoves :
          Shortfall(built[i].call, built[i].at) =>
              (built[i].msg # <<>> /\ built[i].err = "nil")

C17_Witness ==
    /\ Len(built) > 1
    /\ built[1].at.balances # built[2].at.balances
    /\ built[2].call.op = "Transfer" /\ built[2].call.amount > 0
    /\ ~Shortfall(built[1].call, built[1].at)
    /\ Shortfall(built[2].call, built[2].at)
    /\ Applied /\ L.call = built[2].call /\ L.exit = "InsufficientBalance"
    /\ L.balances = built[2].at.balances

\* C12: BalanceOf for a holder that has never appeared in the ledger returns 0
\* and no error, through the API call TokenBalanceOf, for any holder address.
C12_ZeroForUnknown ==
    (/\ ret # <<>>
     /\ ret[1].op = "TokenBalanceOf"
     /\ ret[1].token = TokenAddr
     /\ ret[1].holder \notin DOMAIN ret[1].at.balances
     /\ ResolveAddress(ret[1].holder) \notin DOMAIN ret[1].at.balances)
        => (ret[1].val = 0 /\ ret[1].err = "nil")

\* C18: snapshot reads: on a handle loaded from a root, BalanceOf(h) and
\* ApprovalsBy(h) return at every later moment what the first read returned,
\* whatever messages are pushed and applied meanwhile, and the balances the
\* handle shows are those of a completely applied message (they sum to the
\* total supply).
C18_SnapshotStable ==
    /\ (handle # <<>> /\ first # <<>>) =>
          /\ HandleRead(handle[1], first[1].op, first[1].holder).val = first[1].val
          /\ HandleRead(handle[1], first[1].op, first[1].holder).err = "nil"
    /\ handle # <<>> =>
          SumBalances(handle[1].balances) = handle[1].info[1].TotalSupply

C18_Witness ==
    /\ handle # <<>> /\ first # <<>>
    /\ first[1].op = "BalanceOf" /\ first[1].val > 0
    /\ BalanceOf(balances, first[1].holder) # first[1].val
    /\ mpool # <<>>

\* the queries that reached Load with an actor that is no token actor
LoadedUnknown(r) ==
    /\ r.op \in {"TokenBalanceOf", "TokenGetSpendersOf"}
    /\ ActorAt(r.token) # <<>>
    /\ ActorAt(r.token)[1].Code # TokenActorCodeID
    /\ r.op = "TokenBalanceOf" => StateLookupID(r.holder).err = "nil"

\* C19: a query whose Load meets an actor code without codec returns the
\* UnsupportedVersion error and no value, and makes no store access; every
\* query makes no store write and leaves the ledger, the message pool and the
\* process as they were.
C19_LoadPure ==
    [][ret' # ret =>
          /\ LoadedUnknown(ret'[1]) =>
                /\ ret'[1].err = UnsupportedVersion
                /\ ret'[1].io = <<>>
                /\ ret'[1].op = "TokenBalanceOf" => ret'[1].val = 0
                /\ ret'[1].op = "TokenGetSpendersOf" => ret'[1].val = EmptyMap
          /\ ret'[1].op \in {"TokenBalanceOf", "TokenGetSpendersOf"} =>
                \A i \in DOMAIN ret'[1].io : ret'[1].io[i] = "Get"
          /\ crashed' = FALSE
          /\ UNCHANGED <<info, balances, approvals, mpool, steps, handle>>]_vars

C19_Witness ==
    /\ ret # <<>> /\ LoadedUnknown(ret[1])
    /\ ret[1].op = "TokenBalanceOf" /\ ret[1].holder = KeyAddr
    /\ ret[1].err = UnsupportedVersion
    /\ mpool # <<>>

\* the entries of the map a traversal goes over, and whether the visitor of
\* the traversal fails on an entry
EntriesOf(op, root) ==
    IF op = "ForEachHolder"
    THEN {<<h, root.balances[h]>> : h \in DOMAIN root.balances}
    ELSE UNION {{<<h, sp, root.approvals[h][sp]>> : sp \in DOMAIN root.approvals[h]} :
                   h \in DOMAIN root.approvals}
FailsOn(op, e, failing) ==
    IF op = "ForEachHolder" THEN e[1] \in failing ELSE <<e[1], e[2]>> \in failing

\* C20: ForEachHolder and ForEachApproval are fail-fast: when the visitor fails
\* on an entry, that entry is the last one visited and the call returns exactly
\* its failure; without a failing entry every entry is visited once and the
\* call returns no error.
C20_FailFast ==
    (ret # <<>> /\ ret[1].op \in {"ForEachHolder", "ForEachApproval"}) =>
        LET r == ret[1]
            v == r.visited
            n == Len(v)
            all == EntriesOf(r.op, r.at)
        IN  /\ \A i \in 1..n : v[i] \in all
            /\ \A i \in 1..n, j \in 1..n : i # j => v[i] # v[j]
            /\ (\E e \in all : FailsOn(r.op, e, r.failing)) <=> r.err # <<>>
            /\ r.err # <<>> =>
                  /\ n > 0
                  /\ FailsOn(r.op, v[n], r.failing)
                  /\ r.err = Failure(v[n])
                  /\ \A i \in 1..(n - 1) : ~FailsOn(r.op, v[i], r.failing)
            /\ r.err = <<>> => {v[i] : i \in 1..n} = all

C20_Witness ==
    /\ ret # <<>> /\ ret[1].op = "ForEachApproval" /\ ret[1].err # <<>>
    /\ LET v == ret[1].visited
       IN  \E e \in EntriesOf("ForEachApproval", ret[1].at) :
              /\ e[1] # v[Len(v)][1]
              /\ \A i \in 1..Len(v) : v[i] # e

\* C23: a TransferFrom whose amount exceeds the caller's allowance fails with
\* InsufficientAllowance, also when the holder's balance is short as well;
\* it fails with InsufficientBalance only when the allowance suffices and the
\* holder's balance does not.
C23_Precedence ==
    IsApplied("TransferFrom") =>
        LET c == L.call
            allowance == Allowance(L.approvals, c.holder, c.from)
            balance == BalanceOf(L.balances, c.holder)
        IN  /\ allowance < c.amount => L.exit = "InsufficientAllowance"
            /\ L.exit = "InsufficientBalance" =>
                  allowance >= c.amount /\ balance < c.amount

C23_Witness ==
    /\ IsApplied("TransferFrom")
    /\ Allowance(L.approvals, L.call.holder, L.call.from) < L.call.amount
    /\ BalanceOf(L.balances, L.call.holder) < L.call.amount
    /\ L.exit = "InsufficientAllowance"

\* C25: a Transfer to the sender itself, of an amount the sender's balance
\* covers, succeeds and changes no balance and no allowance; the balances
\* still sum to the total supply.
C25_SelfTransfer ==
    (/\ IsApplied("Transfer")
     /\ L.call.to = L.call.from
     /\ BalanceOf(L.balances, L.call.from) >= L.call.amount) =>
        /\ L.exit = "Ok"
        /\ \A x \in Addrs : BalanceOf(balances, x) = BalanceOf(L.balances, x)
        /\ AllowancesKept
        /\ SumBalances(balances) = info[1].TotalSupply

C25_Witness ==
    /\ IsApplied("Transfer")
    /\ L.call.to = L.call.from
    /\ L.call.amount > 0
    /\ BalanceOf(L.balances, L.call.from) >= L.call.amount
    /\ L.exit = "Ok"

\* the lookups of a read API call that failed: the load of the token actor's
\* state, the resolution of the holder, the key of a holder visited
LookupFailed(r) ==
    \/ r.token # TokenAddr
    \/ r.op = "TokenBalanceOf" /\ StateLookupID(r.holder).err # "nil"
    \/ /\ r.op = "TokenGetHolders"
       /\ \E h \in DOMAIN r.at.balances : StateAccountKey(h, r.noKey).err # "nil"

ReadCalls == {"TokenInfo", "TokenBalanceOf", "TokenGetHolders", "TokenGetSpendersOf"}

\* C21: a read API call (TokenInfo, TokenBalanceOf, TokenGetHolders,
\* TokenGetSpendersOf) during which a lookup failed returns an error; it never
\* answers successfully with the failed value left undefined.
C21_ErrorsSurface ==
    (ret # <<>> /\ ret[1].op \in ReadCalls /\ LookupFailed(ret[1])) =>
        ret[1].err # "nil"

\* C26: on one root, the (spender, amount) pairs ForEachApproval visits with
\* holder h are the mapping ApprovalsBy(h) returns, no (holder, spender) pair
\* is visited twice, and a holder without an approvals entry has an empty
\* ApprovalsBy and no visit.
C26_Agree ==
    (ret # <<>> /\ ret[1].op = "ForEachApproval" /\ ret[1].failing = {}) =>
        LET v == ret[1].visited
            n == Len(v)
        IN  /\ ret[1].err = <<>>
            /\ \A i \in 1..n, j \in 1..n :
                  (i # j) => <<v[i][1], v[i][2]>> # <<v[j][1], v[j][2]>>
            /\ \A h \in HolderArgs :
                  LET a == state3_ApprovalsBy(ret[1].at, h)
                  IN  /\ a.err = "nil"
                      /\ {<<v[i][2], v[i][3]>> : i \in {k \in 1..n : v[k][1] = h}}
                            = {<<sp, a.val[sp]>> : sp \in DOMAIN a.val}
                      /\ h \notin DOMAIN ret[1].at.approvals =>
                            /\ a.val = EmptyMap
                            /\ \A i \in 1..n : v[i][1] # h

C26_Witness ==
    /\ ret # <<>> /\ ret[1].op = "ForEachApproval" /\ ret[1].failing = {}
    /\ \E h \in IDAddrs :
          /\ h \in DOMAIN ret[1].at.approvals
          /\ Cardinality(DOMAIN ret[1].at.approvals[h]) = 2
    /\ \E h \in IDAddrs : h \notin DOMAIN ret[1].at.approvals

\* C27: for a holder that has a balance and has approved spenders,
\* TokenBalanceOf and TokenGetSpendersOf return the stored balance and the
\* stored approvals, whether the holder is named by its ID address or by its
\* public-key address.
C27_AddressForms ==
    (/\ ret # <<>>
     /\ ret[1].op \in {"TokenBalanceOf", "TokenGetSpendersOf"}
     /\ ret[1].token = TokenAddr
     /\ ResolveAddress(ret[1].holder) \in DOMAIN ret[1].at.balances
     /\ ResolveAddress(ret[1].holder) \in DOMAIN ret[1].at.approvals) =>
        LET id == ResolveAddress(ret[1].holder)
        IN  /\ ret[1].err = "nil"
            /\ ret[1].op = "TokenBalanceOf" => ret[1].val = ret[1].at.balances[id]
            /\ ret[1].op = "TokenGetSpendersOf" => ret[1].val = ret[1].at.approvals[id]

\* what a command printed
Said(text) == \E i \in DOMAIN term.out : term.out[i][1] = text
Ran(name) == term.stage # "idle" /\ term.cmd.name = name
Answered == term.stage # "idle" /\ term.api # <<>>

\* C22: a mutating command (create, transfer, approve) prints 'transaction
\* succeeded' and returns success only once the engine has returned the receipt
\* of its message with exit code 0; on a receipt with another exit code it
\* prints the failure text with the code and returns an error; the message is
\* not submitted again.
C22_ReportsReceipt ==
    (term.stage # "idle" /\ term.cmd \in MutatingCmds) =>
        /\ (Said("transaction succeeded") \/ (term.stage = "done" /\ term.err = "nil")) =>
              /\ term.stage = "done" /\ term.err = "nil"
              /\ Said("transaction succeeded")
              /\ ~Said("transaction failed; exit code")
              /\ Answered
              /\ StateWaitMsg(term.api[1].id) = <<[ExitCode |-> "Ok"]>>
        /\ (/\ term.stage = "done" /\ Answered
            /\ StateWaitMsg(term.api[1].id) # <<>>
            /\ StateWaitMsg(term.api[1].id)[1].ExitCode # "Ok") =>
              /\ \E i \in DOMAIN term.out :
                    term.out[i] = <<"transaction failed; exit code", L.exit>>
              /\ term.err # "nil"
        /\ (term.stage = "done" /\ Answered /\ term.api[1].err = "nil") =>
              /\ mpool = <<>>
              /\ steps = term.steps + 1
              /\ StateWaitMsg(term.api[1].id) # <<>>

C22_Witness ==
    /\ Ran("transfer") /\ term.stage = "done"
    /\ Said("transaction failed; exit code")
    /\ L.exit = "InsufficientAllowance"

\* C24: an API mutation call returns to its caller having pushed at most one
\* message: when the token actor lookup, the network-version lookup, the build
\* of the message or the push fails it has pushed none and returns cid.Undef
\* with an error; otherwise it has pushed one message and returns the id of
\* that message.
C24_OneMessage ==
    (term.stage # "idle" /\ term.cmd \in MutatingCmds /\ term.call # ShowHelp) =>
        /\ term.pushed <= 1
        /\ Answered
        /\ term.api[1].err # "nil" =>
              term.pushed = 0 /\ term.api[1].id = CidUndef
        /\ term.api[1].err = "nil" =>
              /\ term.pushed = 1
              /\ term.api[1].id # CidUndef
              /\ IF last = <<>>
                 THEN Len(mpool) = 1 /\ term.api[1].id = Cid(mpool[1].msg)
                 ELSE mpool = <<>> /\ steps = term.steps + 1
        /\ (term.call[1] # "TokenCreate" /\ ~(term.call[2] = TokenAddr /\ info # <<>>)) =>
              term.api[1].err # "nil"

\* C28: the delegations command, given a token address and exactly one holder
\* address, calls TokenGetSpendersOf for that token and that holder, prints
\* each spender of the holder with its allowance and returns no error.
C28_Delegations ==
    (/\ Ran("delegations")
     /\ Len(term.cmd.args) = 1
     /\ term.cmd.flags["token"] = TokenAddr
     /\ info # <<>>) =>
        /\ term.call = <<"TokenGetSpendersOf", TokenAddr, term.cmd.args[1]>>
        /\ term.err = "nil"
        /\ LET id == ResolveAddress(term.cmd.args[1])
           IN  {term.out[i] : i \in DOMAIN term.out}
                  = {<<sp, approvals[id][sp]>> :
                        sp \in (IF id \in DOMAIN approvals THEN DOMAIN approvals[id] ELSE {})}

\* C29: the approve command run with --from X calls TokenApprove with holder X;
\* the wallet default address is the holder only when --from is not given.
C29_ApproveFrom ==
    (Ran("approve") /\ term.call # ShowHelp) =>
        term.call[3] = (IF term.cmd.flags["from"] # ""
                        THEN term.cmd.flags["from"]
                        ELSE WalletDefault)

\* C30: the transfer command with --delegated-from H pushes exactly one
\* TransferFrom message to the token, sent by the sender S (the --sender flag,
\* else the wallet default), with holder H and the recipient and amount of its
\* arguments; without --delegated-from it pushes exactly one Transfer message
\* sent by S to the recipient, for the amount.
C30_RoleWiring ==
    (Ran("transfer") /\ term.stage = "waiting" /\ last = <<>>) =>
        LET f == term.cmd.flags
            S == IF f["sender"] # "" THEN f["sender"] ELSE WalletDefault
            H == f["delegated-from"]
        IN  /\ Len(mpool) = 1
            /\ mpool[1].msg.From = S
            /\ mpool[1].msg.To = f["token"]
            /\ IF H # ""
               THEN /\ mpool[1].msg.Method = MethodTransferFrom
                    /\ DeserializeParams(mpool[1].msg.Params)
                          = <<H, term.cmd.args[1], term.cmd.args[2]>>
               ELSE /\ mpool[1].msg.Method = MethodTransfer
                    /\ DeserializeParams(mpool[1].msg.Params)
                          = <<term.cmd.args[1], term.cmd.args[2]>>

C30_Witness ==
    /\ Ran("transfer") /\ term.stage = "waiting" /\ last = <<>>
    /\ term.cmd.flags["delegated-from"] = "t01"
    /\ term.cmd.flags["sender"] = "t02"
    /\ mpool[1].msg.Method = MethodTransferFrom

====
